---------------------------- MODULE Spec2Model ----------------------------
(***************************************************************************)
(* CareerFlow: the hiring-relevance classification pipeline                *)
(* (backend/app/services/email_filtering_service.py) and the provider      *)
(* synchronisation of e-mails (backend/app/routes/emails.py) over the      *)
(* Email table (backend/app/models/email.py).                              *)
(*                                                                         *)
(* Numbers.  The spam score is counted in half points (3 points = 6).      *)
(* Confidences are counted in units of 1/10000; the keyword confidence is  *)
(* an IEEE double in the source, and the model keeps the rounding error of *)
(* the sum as one extra unit (3001 stands for 0.30000000000000004).        *)
(*                                                                         *)
(* Text.  A text is the set of phrases written in it; `kw in text` of the  *)
(* source is "kw is a substring of one of the phrases" (Occurs).           *)
(***************************************************************************)
EXTENDS Integers, Sequences, FiniteSets, TLC

VARIABLES
    email,      \* analyze_email: the email_data argument
    analysis,   \* analyze_email: what the call produced ("none" before it)
    undated,    \* provider: the message without a Date header (0: none)
    db,         \* emails table: the committed rows, per Email.id
    now,        \* datetime.utcnow(), counted in sync passes started
    userActions,    \* requests of the user handled so far
    pc,             \* sync task: where it stands
    force_refresh,  \* sync task: its force_refresh argument
    days_back,      \* sync task: its days_back argument
    idx,            \* sync task: position of the for loop in the batch
    synced_count,   \* sync task: synced_count
    updated_count,  \* sync task: updated_count
    pending,        \* sync task's Session: objects added, not yet inserted
    dirty,          \* sync task's Session: loaded objects and their new values
    calls,          \* history: stages of the pipeline run by the pass
    outcome,        \* history: what the pass did with each message
    prev,           \* history: the previous pass of the task
    error,          \* history: the exception that reached the outer handler
    raced,          \* history: ids added while another task had them pending
    message,        \* _get_email_details: the message the provider returns
    details,        \* _get_email_details: what the call returned
    templates,      \* referral_messages table: the committed rows, per id
    worker,         \* generate request: the template its Session has loaded
    reply,          \* generate request: the response of the worker's last one
    requests,       \* requests to the referral routes received so far
    generated,      \* history: generate requests answered 200, per template
    calTask,        \* calendar sync: the arguments and locals of the task
    calTable,       \* calendar_events table: the ids of the committed rows
    calSession,     \* calendar sync's Session: objects added and modified
    calCounted,     \* history: times the pass counted each event
    payload,        \* _extract_email_body: the kept candidates of the message
    extracted       \* _extract_email_body: what the call returned

-----------------------------------------------------------------------------
(* Bounds of the inputs *)

MaxSubjectAtoms == 1
MaxBodyAtoms == 1
MaxBatch == 11          \* messages the provider returns for days_back = 30
RecentBatch == 2        \* messages the provider returns for days_back = 7
MaxPasses == 2          \* sync passes started, over all tasks
MaxUndated == 1         \* a message without Date is among the first MaxUndated
MaxUserActions == 1     \* requests of the user
MaxUserId == 2          \* the user works on the messages 1..MaxUserId
MaxBodyLen == 51        \* characters of the cleaned text/plain part
MaxSnippetLen == 21     \* characters of the trimmed snippet
MaxPad == 1             \* whitespace characters around the snippet
MaxTemplates == 2       \* referral templates
MaxRequests == 5        \* requests to the referral routes
MaxCalendars == 2       \* calendar ids of one calendar sync
MaxEvents == 5          \* events the provider returns for the primary calendar
MaxParts == 3           \* kept candidates of one kind in a message

-----------------------------------------------------------------------------
(* Vocabulary of the texts and the fixed word lists of the service *)

Vocab ==
    {"interview", "schedule a call", "job offer", "opportunity",
     "linkedin referral", "limited time offer", "act now"}

\* the phrases of the emails that are examined one by one
ScenarioPhrases ==
    {"interview invitation - software engineer role",
     "schedule a call next week",
     "thank you for interviewing, your offer letter states salary and start date",
     "update on your application",
     "unfortunately we are not moving forward"}

Phrases == Vocab \cup ScenarioPhrases

\* the list strings (keywords, spam phrases, rule words) that are substrings
\* of each phrase
Occurs ==
    [a \in Phrases |->
        CASE a = "interview" -> {"interview"}
          [] a = "schedule a call" -> {"schedule", "call"}
          [] a = "job offer" -> {"job offer", "offer"}
          [] a = "opportunity" -> {"opportunity"}
          [] a = "linkedin referral" -> {"linkedin", "referral"}
          [] a = "limited time offer" ->
                 {"limited time offer", "limited time", "offer"}
          [] a = "act now" -> {"act now"}
          [] a = "interview invitation - software engineer role" ->
                 {"interview", "role"}
          [] a = "schedule a call next week" -> {"schedule", "call"}
          [] a = "thank you for interviewing, your offer letter states salary and start date" ->
                 {"thank you for interviewing", "interview", "offer letter",
                  "offer", "salary", "start date"}
          [] a = "update on your application" -> {"update", "application"}
          [] a = "unfortunately we are not moving forward" ->
                 {"unfortunately", "not moving forward"}]

\* Python's `kw in text`
Contains(text, kw) == \E a \in text : kw \in Occurs[a]

\* sum(1 for keyword in list if keyword in text)
Matches(list, text) == Cardinality(UNION {Occurs[a] : a \in text} \cap list)

high_confidence ==
    {"interview", "job offer", "position", "recruiter", "hiring manager",
     "job opportunity", "application", "resume", "cv", "background check",
     "onboarding", "salary", "compensation", "offer letter", "contract",
     "start date", "first day", "orientation", "team meeting",
     "technical assessment", "coding challenge", "take home test",
     "phone screen", "video interview", "in-person interview",
     "final round", "reference check", "drug test", "employment",
     "join our team", "congratulations", "we would like to offer",
     "next steps", "feedback", "thank you for interviewing"}

\* the medium tier without "role"
medium_confidence_NoRole ==
    {"opportunity", "career", "talent", "candidate", "screening",
     "assessment", "discussion", "chat", "call", "meeting",
     "position available", "opening", "vacancy",
     "human resources", "hr", "people team", "talent acquisition"}

medium_confidence ==
    {"opportunity", "career", "talent", "candidate", "screening",
     "assessment", "discussion", "chat", "call", "meeting",
     "role", "position available", "opening", "vacancy",
     "human resources", "hr", "people team", "talent acquisition"}

low_confidence ==
    {"professional", "network", "connect", "linkedin",
     "introduction", "referral", "recommendation"}

spam_phrases ==
    {"make money fast", "easy money", "get rich quick", "work from home scam",
     "no experience required", "earn $", "guaranteed income", "click here now",
     "limited time offer", "act now", "urgent response required",
     "limited time", "congratulations you have won", "claim your prize",
     "verify account", "mystery shopper", "envelope stuffing",
     "data entry from home", "high paying job with no experience",
     "earn thousands weekly", "payment processing", "financial transaction",
     "money transfer", "administrative assistant position",
     "personal assistant from home", "update your information",
     "confirm your identity", "suspended account", "click this link",
     "download attachment", "install software", "this is not spam",
     "remove me from list", "unsubscribe", "special offer", "incredible deal",
     "once in a lifetime", "opportunity of a lifetime", "risk-free",
     "money back guarantee"}

generic_subjects ==
    {"urgent", "important", "please read", "hello", "hi there",
     "job offer", "employment opportunity", "work from home"}

\* the ordered rules of _infer_category_from_keywords
CategoryRules ==
    << [words |-> {"interview", "schedule", "meeting", "call"},
        category |-> "INTERVIEW_INVITATION"],
       [words |-> {"offer", "congratulations", "pleased to offer"},
        category |-> "OFFER"],
       [words |-> {"unfortunately", "not moving forward", "different direction"},
        category |-> "REJECTION"],
       [words |-> {"follow up", "checking in", "update"},
        category |-> "FOLLOW_UP"],
       [words |-> {"recruiter", "opportunity", "interested in"},
        category |-> "RECRUITER_OUTREACH"],
       [words |-> {"application", "applied", "position"},
        category |-> "JOB_APPLICATION"] >>

category_mapping ==
    [c \in {"job_application", "interview_invitation", "rejection", "offer",
            "recruiter_outreach", "follow_up", "other"} |->
        CASE c = "job_application" -> "JOB_APPLICATION"
          [] c = "interview_invitation" -> "INTERVIEW_INVITATION"
          [] c = "rejection" -> "REJECTION"
          [] c = "offer" -> "OFFER"
          [] c = "recruiter_outreach" -> "RECRUITER_OUTREACH"
          [] c = "follow_up" -> "FOLLOW_UP"
          [] c = "other" -> "OTHER"]

\* sender addresses, by what the scorers look at
\*   invalid:    empty or without '@'          normal:     jane@acmecorp.com
\*   recruiter:  jobs@linkedin.com             disposable: noreply@tempmail.com
\*   spoofed:    hr@linkedln.com
SenderKinds == {"invalid", "normal", "recruiter", "disposable", "spoofed"}

\* addresses that hold a recruiter domain outside their domain part
\*   recruiter_local:     linkedin.com.news@gmail.com
\*   recruiter_fragment:  hr@notlinkedin.com
LookalikeSenders == {"recruiter_local", "recruiter_fragment"}


\* the subject as a string shape: str.lower() keeps the length
Lower(form) == IF form \in {"UPPER_LONG", "Mixed_long"} THEN "lower_long" ELSE form
IsUpper(form) == form = "UPPER_LONG"
LenGt10(form) == form \in {"UPPER_LONG", "lower_long"}

HasAt(sender) == sender # "invalid"
InSuspiciousDomains(sender) == sender = "disposable"
InSpoofedDomains(sender) == sender = "spoofed"
\* any(domain in sender_email for domain in self.recruiter_domains)
InRecruiterDomains(sender) == sender \in {"recruiter"} \cup LookalikeSenders

Min(a, b) == IF a < b THEN a ELSE b
Max(a, b) == IF a > b THEN a ELSE b

-----------------------------------------------------------------------------
(* _analyze_spam_likelihood: additive score, in half points *)

SpamThreshold == 6      \* spam_score >= 3

SpamScore(e) ==
    LET subject == Lower(e.subjectForm)
        content == e.subject \cup e.body
    IN    (IF "SPAM" \in e.labels THEN 4 ELSE 0)
        + 2 * Matches(spam_phrases, content)
        + (IF ~HasAt(e.sender) THEN 2
           ELSE   (IF InSuspiciousDomains(e.sender) THEN 4 ELSE 0)
                + (IF InSpoofedDomains(e.sender) THEN 6 ELSE 0))
        + (IF IsUpper(subject) /\ LenGt10(subject) THEN 2 ELSE 0)
        + (IF e.subjectPunct THEN 2 ELSE 0)
        + (IF \E g \in generic_subjects : Contains(e.subject, g) THEN 1 ELSE 0)
        + (IF e.bodyLen = "short" THEN 2 ELSE 0)
        + (IF e.bodyLen # "empty" /\ e.currency THEN 2 ELSE 0)
        + (IF e.bodyLen # "empty" /\ e.links THEN 2 ELSE 0)
        + (IF e.senderName = "automated" THEN 1 ELSE 0)

\* a scorer that flags only above the threshold
IsLikelySpam_Above(spam_score) == spam_score > SpamThreshold

\* is_likely_spam = spam_score >= 3
IsLikelySpam(spam_score) == spam_score >= SpamThreshold

AnalyzeSpamLikelihood(e) ==
    LET score == SpamScore(e)
    IN  [is_likely_spam |-> IsLikelySpam(score),
         spam_score |-> score,
         spam_confidence |-> Min((score * 10000) \div 12, 10000),
         is_in_spam_folder |-> "SPAM" \in e.labels]

-----------------------------------------------------------------------------
(* _analyze_keywords and _infer_category_from_keywords *)

\* rounding of high*0.3 + medium*0.15 + low*0.05 + boost in IEEE doubles,
\* against the double nearest to the exact sum: one unit up, one unit down
FloatUp ==
    {<<0, 0, 2, 1>>, <<0, 0, 3, 0>>, <<0, 0, 3, 1>>, <<0, 1, 3, 0>>,
     <<0, 2, 2, 1>>, <<1, 0, 2, 1>>, <<1, 2, 1, 1>>, <<2, 0, 1, 1>>}

FloatDown ==
    {<<0, 3, 0, 0>>, <<0, 3, 0, 1>>, <<0, 3, 1, 0>>, <<0, 3, 2, 0>>,
     <<0, 3, 4, 0>>, <<0, 3, 4, 1>>, <<1, 1, 0, 0>>, <<1, 1, 0, 1>>,
     <<1, 1, 1, 0>>, <<1, 1, 2, 0>>, <<1, 1, 4, 0>>, <<1, 1, 4, 1>>,
     <<1, 2, 2, 1>>, <<2, 0, 2, 1>>, <<2, 2, 0, 0>>, <<2, 2, 2, 0>>,
     <<3, 0, 0, 0>>, <<3, 0, 2, 0>>}

\* the weighted sum without min(1.0, ...)
KeywordConfidence_Unclamped(high, medium, low, boost) ==
    high * 3000 + medium * 1500 + low * 500 + boost * 2000

KeywordConfidence(high, medium, low, boost) ==
    LET exact == high * 3000 + medium * 1500 + low * 500 + boost * 2000
        t == <<high, medium, low, boost>>
        sum == exact + (IF t \in FloatUp THEN 1 ELSE 0)
                     - (IF t \in FloatDown THEN 1 ELSE 0)
    IN  Min(10000, sum)

RECURSIVE FirstMatch(_, _)
FirstMatch(text, i) ==
    IF i > Len(CategoryRules) THEN "OTHER"
    ELSE IF \E w \in CategoryRules[i].words : Contains(text, w)
         THEN CategoryRules[i].category
         ELSE FirstMatch(text, i + 1)

\* an inference that looks at the offer rule before the interview rule
InferCategoryFromKeywords_OfferFirst(text) ==
    IF \E w \in CategoryRules[2].words : Contains(text, w)
    THEN CategoryRules[2].category
    ELSE FirstMatch(text, 1)

InferCategoryFromKeywords(text) == FirstMatch(text, 1)

AiGate == 3000          \* keyword confidence_score > 0.3
RelevantGate == 5000    \* confidence_score > 0.5

\* a gate that also lets a confidence of exactly 0.3 through
AiWanted_AtLeast(keyword_analysis) == keyword_analysis.confidence_score >= AiGate

\* if keyword_analysis['confidence_score'] > 0.3
AiWanted(keyword_analysis) == keyword_analysis.confidence_score > AiGate

AnalyzeKeywords(e) ==
    LET text == e.subject \cup e.body
        high_matches == Matches(high_confidence, text)
        medium_matches == Matches(medium_confidence, text)
        low_matches == Matches(low_confidence, text)
        domain_boost == IF InRecruiterDomains(e.sender) THEN 1 ELSE 0
        confidence_score ==
            KeywordConfidence(high_matches, medium_matches, low_matches, domain_boost)
    IN  [is_hiring_related |-> confidence_score > RelevantGate,
         confidence_score |-> confidence_score,
         category |-> InferCategoryFromKeywords(text),
         keyword_matches |-> [high |-> high_matches, medium |-> medium_matches,
                              low |-> low_matches],
         domain_boost |-> domain_boost > 0,
         analysis_method |-> "keyword"]

-----------------------------------------------------------------------------
(* The completion service and _ai_analyze_email                            *)
(*                                                                         *)
(* A response is what chat.completions.create did: it raised, or returned  *)
(* a text that is not JSON, a JSON object in a Markdown code fence, a JSON *)
(* value that is not an object, or a JSON object.  Of an object the model  *)
(* keeps the four keys the pipeline and the sync read.  A key is present   *)
(* or not; confidence_score is a number or a value float() rejects;        *)
(* of category and priority "missing" is the absent key and "null" a JSON  *)
(* null.                                                                   *)

AiConfidences ==
    {[present |-> FALSE, numeric |-> FALSE, value |-> 0],
     [present |-> TRUE, numeric |-> FALSE, value |-> 0]}
    \cup {[present |-> TRUE, numeric |-> TRUE, value |-> v] :
             v \in {-2000, 6000, 13000}}
AiCategories == {"missing", "interview_invitation", "newsletter"}
AiRelevances ==
    {[present |-> FALSE, value |-> FALSE]}
    \cup {[present |-> TRUE, value |-> b] : b \in BOOLEAN}
AiPriorities == {"missing", "high", "urgent", "null"}

NoObject ==
    [confidence_score |-> [present |-> FALSE, numeric |-> FALSE, value |-> 0],
     category |-> "missing",
     is_hiring_related |-> [present |-> FALSE, value |-> FALSE],
     priority |-> "missing"]

AiResponses ==
    {[kind |-> k, json |-> NoObject] :
        k \in {"raise", "invalid_json", "fenced_json", "non_object"}}
    \cup
    {[kind |-> "object",
      json |-> [confidence_score |-> c, category |-> g,
                is_hiring_related |-> r, priority |-> p]] :
        c \in AiConfidences, g \in AiCategories,
        r \in AiRelevances, p \in AiPriorities}

\* dict.get(key, default) on a string-valued key
Get(value, default) == IF value = "missing" THEN default ELSE value

DefaultAiConfidence == 5000     \* ai_result.get('confidence_score', 0.5)

\* a default that calls the email hiring-related
DefaultAiResult_Relevant ==
    [is_hiring_related |-> [present |-> TRUE, value |-> TRUE],
     confidence_score |-> 5000,
     category |-> "OTHER",
     priority |-> "medium",
     analysis_method |-> "ai_fallback"]

DefaultAiResult ==
    [is_hiring_related |-> [present |-> TRUE, value |-> FALSE],
     confidence_score |-> 5000,
     category |-> "OTHER",
     priority |-> "medium",
     analysis_method |-> "ai_fallback"]

\* the statements inside the try blocks of _ai_analyze_email: the exception
\* they end with ("none" when they return), and the value they return
AiTry(resp) ==
    LET c == resp.json.confidence_score
        cat == Get(resp.json.category, "other")
        exc == CASE resp.kind = "raise" -> "Exception"
                 [] resp.kind \in {"invalid_json", "fenced_json"} -> "JSONDecodeError"
                 [] resp.kind = "non_object" -> "AttributeError"
                 [] resp.kind = "object" /\ c.present /\ ~c.numeric -> "ValueError"
                 [] OTHER -> "none"
    IN  [exc |-> exc,
         value |->
            [is_hiring_related |-> resp.json.is_hiring_related,
             confidence_score |->
                Max(0, Min(10000, IF c.present THEN c.value ELSE DefaultAiConfidence)),
             category |-> IF cat \in DOMAIN category_mapping
                          THEN category_mapping[cat] ELSE "OTHER",
             priority |-> resp.json.priority,
             analysis_method |-> "ai"]]

\* exceptions that `except Exception` catches: all but the BaseException
\* ones (KeyboardInterrupt, SystemExit)
Exceptions ==
    {"Exception", "JSONDecodeError", "AttributeError", "ValueError",
     "KeyError", "IntegrityError", "PendingRollbackError"}

\* _ai_analyze_email without its handlers: every exception leaves the method
AiAnalyzeEmail_Unhandled(resp) == AiTry(resp)

\* _ai_analyze_email: except json.JSONDecodeError (413) and
\* except Exception (418) both return the default.  exc is what leaves the
\* method.
AiAnalyzeEmail(resp) ==
    LET t == AiTry(resp)
    IN  IF t.exc = "JSONDecodeError" THEN [exc |-> "none", value |-> DefaultAiResult]
        ELSE IF t.exc \in Exceptions THEN [exc |-> "none", value |-> DefaultAiResult]
        ELSE t

-----------------------------------------------------------------------------
(* _combine_analyses, the default result and analyze_email *)

KeywordWeight == 3      \* keyword_weight = 0.3
AiWeight == 7           \* ai_weight = 0.7
SpamFilteredConfidence == 1000  \* 'confidence_score': 0.1

CombineAnalyses(keyword_analysis, ai_analysis) ==
    [is_hiring_related |->
        IF ai_analysis.is_hiring_related.present
        THEN ai_analysis.is_hiring_related.value
        ELSE keyword_analysis.is_hiring_related,
     confidence_score |->
        (keyword_analysis.confidence_score * KeywordWeight
         + ai_analysis.confidence_score * AiWeight) \div 10,
     category |-> Get(ai_analysis.category, keyword_analysis.category),
     priority |-> Get(ai_analysis.priority, "medium"),
     ai_analysis_performed |-> "True",
     analysis_method |-> "combined"]

\* a default result that calls itself a keyword result
DefaultAnalysisResult_Keyword ==
    [is_hiring_related |-> FALSE,
     confidence_score |-> 0,
     category |-> "OTHER",
     priority |-> "low",
     ai_analysis_performed |-> "False",
     analysis_method |-> "keyword"]

DefaultAnalysisResult ==
    [is_hiring_related |-> FALSE,
     confidence_score |-> 0,
     category |-> "OTHER",
     priority |-> "low",
     ai_analysis_performed |-> "False",
     analysis_method |-> "default"]

\* the statements inside the try block of analyze_email (74-104), with the
\* completion service answering resp if it is asked.  exc: the exception
\* the block ends with; result: the dict it returns (a key the dict lacks
\* is "missing"); calls: the stages that were invoked.
AnalyzeTry(e, resp) ==
    IF ~e.wellFormed
    THEN \* a field that is not a string: the spam scorer raises at .lower()
         [exc |-> "AttributeError",
          result |-> DefaultAnalysisResult,
          calls |-> [spam |-> TRUE, keyword |-> FALSE, ai |-> FALSE]]
    ELSE LET spam_analysis == AnalyzeSpamLikelihood(e)
             keyword_analysis == AnalyzeKeywords(e)
         IN  IF spam_analysis.is_likely_spam
             THEN [exc |-> "none",
                   result |-> [is_hiring_related |-> FALSE,
                               confidence_score |-> SpamFilteredConfidence,
                               category |-> "OTHER",
                               priority |-> "missing",
                               ai_analysis_performed |-> "missing",
                               analysis_method |-> "spam_filtered"],
                   calls |-> [spam |-> TRUE, keyword |-> FALSE, ai |-> FALSE]]
             ELSE IF AiWanted(keyword_analysis)
             THEN LET ai_analysis == AiAnalyzeEmail(resp)
                  IN  [exc |-> ai_analysis.exc,
                       result |-> CombineAnalyses(keyword_analysis, ai_analysis.value),
                       calls |-> [spam |-> TRUE, keyword |-> TRUE, ai |-> TRUE]]
             ELSE [exc |-> "none",
                   result |-> [is_hiring_related |-> keyword_analysis.is_hiring_related,
                               confidence_score |-> keyword_analysis.confidence_score,
                               category |-> keyword_analysis.category,
                               priority |-> "missing",
                               ai_analysis_performed |-> "False",
                               analysis_method |-> "keyword"],
                   calls |-> [spam |-> TRUE, keyword |-> TRUE, ai |-> FALSE]]

\* analyze_email: except Exception (106-108) returns the default result
AnalyzeEmail(e, resp) ==
    LET t == AnalyzeTry(e, resp)
    IN  IF t.exc \in Exceptions
        THEN [raised |-> FALSE, result |-> DefaultAnalysisResult, calls |-> t.calls]
        ELSE [raised |-> t.exc # "none", result |-> t.result, calls |-> t.calls]

-----------------------------------------------------------------------------
(* The inputs of analyze_email *)

AtMost(S, n) == {T \in SUBSET S : Cardinality(T) <= n}

\* a body with text in it is not empty; currency signs and links are
\* counted in a body that has characters
BodyShapes ==
    {[body |-> b, bodyLen |-> l, currency |-> c, links |-> k] :
        b \in AtMost(Vocab, MaxBodyAtoms), l \in {"empty", "short", "long"},
        c \in BOOLEAN, k \in BOOLEAN}

Emails ==
    {[wellFormed |-> TRUE,
      subject |-> sj, subjectForm |-> sf, subjectPunct |-> sp,
      body |-> bs.body, bodyLen |-> bs.bodyLen,
      currency |-> bs.currency, links |-> bs.links,
      sender |-> sd, senderName |-> sn, labels |-> lb] :
        sj \in AtMost(Vocab, MaxSubjectAtoms),
        sf \in {"lower_short", "UPPER_LONG"},
        sp \in BOOLEAN,
        bs \in {x \in BodyShapes :
                    x.bodyLen = "empty" => x.body = {} /\ ~x.currency /\ ~x.links},
        sd \in SenderKinds,
        sn \in {"plain", "automated"},
        lb \in {{"INBOX"}, {"INBOX", "SPAM"}}}

\* subject "Interview Invitation - Software Engineer Role", a body containing
\* "schedule a call next week", sender jane@acmecorp.com
ScenarioA ==
    [wellFormed |-> TRUE,
     subject |-> {"interview invitation - software engineer role"},
     subjectForm |-> "Mixed_long", subjectPunct |-> FALSE,
     body |-> {"schedule a call next week"}, bodyLen |-> "short",
     currency |-> FALSE, links |-> FALSE,
     sender |-> "normal", senderName |-> "plain", labels |-> {"INBOX"}]

\* an email with five high-tier hits and one medium-tier hit
KeywordHeavy ==
    [ScenarioA EXCEPT
        !.subject = {"thank you for interviewing, your offer letter states salary and start date"}]

\* an email with words of the rules 3, 4 and 6
RejectionMail ==
    [ScenarioA EXCEPT
        !.subject = {"update on your application"},
        !.body = {"unfortunately we are not moving forward"}]

\* the rejection mail sent from the addresses with a recruiter domain
\* outside their domain part
Scenarios ==
    {ScenarioA, KeywordHeavy, RejectionMail} \cup
    {[RejectionMail EXCEPT !.sender = a] : a \in LookalikeSenders}

\* an email_data one of whose fields is not a string (subject None)
Malformed ==
    [wellFormed |-> FALSE,
     subject |-> {}, subjectForm |-> "lower_short", subjectPunct |-> FALSE,
     body |-> {}, bodyLen |-> "empty", currency |-> FALSE, links |-> FALSE,
     sender |-> "normal", senderName |-> "plain", labels |-> {"INBOX"}]

NoAnalysis ==
    [raised |-> FALSE,
     result |-> [is_hiring_related |-> FALSE, confidence_score |-> 0,
                 category |-> "OTHER", priority |-> "missing",
                 ai_analysis_performed |-> "missing", analysis_method |-> "none"],
     calls |-> [spam |-> FALSE, keyword |-> FALSE, ai |-> FALSE],
     response |-> "none",
     json |-> NoObject]

-----------------------------------------------------------------------------
(* The provider: what search_hiring_related_emails returns                 *)
(*                                                                         *)
(* Gmail message ids are distinct; the messages are numbered by age, and a *)
(* search over fewer days returns a prefix of the search over more days.   *)
(* The mail box does not change while the model runs.                      *)

Ids == 1..MaxBatch
Tasks == {1, 2}
DaysBack == {7, 30}

BatchLen(d) == IF d = 7 THEN RecentBatch ELSE MaxBatch

PlainMail ==
    [wellFormed |-> TRUE,
     subject |-> {"interview"}, subjectForm |-> "lower_short", subjectPunct |-> FALSE,
     body |-> {}, bodyLen |-> "long", currency |-> FALSE, links |-> FALSE,
     sender |-> "normal", senderName |-> "plain", labels |-> {"INBOX"}]

\* the message of each id, as analyze_email sees it
EmailOf(i) ==
    CASE i = 1 -> [PlainMail EXCEPT !.body = {"schedule a call"}]
      [] i = 2 -> [PlainMail EXCEPT !.subject = {}, !.body = {"opportunity"}]
      [] i = 3 -> [PlainMail EXCEPT !.body = {"act now"},
                                    !.labels = {"INBOX", "SPAM"}]
      [] OTHER -> PlainMail

\* _get_email_details: date_received stays None without a Date header
GmailEmail(i) ==
    [id |-> i,
     thread_id |-> i,
     date_received |-> IF i = undated THEN "NULL" ELSE "date",
     email |-> EmailOf(i)]

\* the message without a Date header, if there is one (0: none): one of
\* the first MaxUndated, or the last of the 30-day search
Undated == (0..MaxUndated) \cup {MaxBatch}

\* what the completion service answers during a sync
SyncResponses ==
    {r \in AiResponses :
        \/ r.kind = "raise"
        \/ /\ r.kind = "object"
           /\ r.json.confidence_score = [present |-> TRUE, numeric |-> TRUE, value |-> 6000]
           /\ r.json.category = "interview_invitation"
           /\ r.json.is_hiring_related = [present |-> TRUE, value |-> TRUE]
           /\ r.json.priority \in {"high", "urgent"}}

-----------------------------------------------------------------------------
(* The Email table and the SQLAlchemy Session of a task                    *)
(*                                                                         *)
(* The sessions are made with autoflush=False: a query reads the committed *)
(* rows, db.add and setattr change the Session only, and db.commit flushes *)
(* the INSERTs and UPDATEs and commits them in one transaction.  A flush   *)
(* that fails rolls the transaction back and the Session forgets its       *)
(* pending and modified objects.                                           *)

EmailPriority == {"LOW", "MEDIUM", "HIGH"}

CommitEvery == 10

\* a test that asks for the commit one message later
CommitDue_Late(counted) == counted % (CommitEvery + 1) = 0

\* the test before db.commit() in the loop (207)
CommitDue(counted) == counted % CommitEvery = 0

\* str.upper() on the priority strings of the model
Upper(p) ==
    CASE p = "low" -> "LOW" [] p = "medium" -> "MEDIUM" [] p = "high" -> "HIGH"
      [] p = "urgent" -> "URGENT" [] OTHER -> p

\* the statements that build email_data (171-192): the exception they end
\* with and the dict
BuildEmailData(gmail_email, a, utcnow) ==
    LET p == Get(a.priority, "medium")
    IN  [exc |-> IF p = "null" THEN "AttributeError"
                 ELSE IF Upper(p) \notin EmailPriority THEN "KeyError"
                 ELSE "none",
         data |-> [id |-> gmail_email.id,
                   thread_id |-> gmail_email.thread_id,
                   date_received |-> gmail_email.date_received,
                   status |-> "UNREAD",
                   priority |-> Upper(p),
                   category |-> a.category,
                   is_hiring_related |-> a.is_hiring_related,
                   confidence_score |-> a.confidence_score,
                   last_sync_at |-> utcnow]]

\* Email(**email_data): the columns the dict does not name are NULL
NewEmail(email_data) ==
    [id |-> email_data.id,
     thread_id |-> email_data.thread_id,
     date_received |-> email_data.date_received,
     status |-> email_data.status,
     priority |-> email_data.priority,
     category |-> email_data.category,
     is_hiring_related |-> email_data.is_hiring_related,
     confidence_score |-> email_data.confidence_score,
     last_sync_at |-> email_data.last_sync_at,
     application_id |-> "NULL"]

\* an update loop that also leaves the status alone
Overwrite_KeepStatus(existing_email, email_data) ==
    [key \in DOMAIN existing_email |->
        IF key \in DOMAIN email_data /\ key \notin {"id", "status"}
        THEN email_data[key] ELSE existing_email[key]]

\* for key, value in email_data.items(): if key != 'id': setattr(...)
Overwrite(existing_email, email_data) ==
    [key \in DOMAIN existing_email |->
        IF key \in DOMAIN email_data /\ key # "id"
        THEN email_data[key] ELSE existing_email[key]]

\* a lookup that never skips
ShouldSkip_Never(existing, force) == FALSE

\* if existing_email and not force_refresh: continue
ShouldSkip(existing, force) == existing /\ ~force

\* db.query(Email).filter(Email.id == id).first()
Exists(id) == db[id] # << >>
First(id) == db[id][1]

\* a table without a primary key
PrimaryKeyOk_None(row) == TRUE

\* Email.id is the primary key: no INSERT of an id that has a row
PrimaryKeyOk(row) == db[row.id] = << >>

\* date_received is nullable=False
NotNullOk(row) == row.date_received # "NULL"

\* the flush of db.commit() raises IntegrityError
FlushFails(s) == \E row \in pending[s] : ~NotNullOk(row) \/ ~PrimaryKeyOk(row)

\* UPDATE emails SET <changed columns> WHERE id = ?
ApplyUpdate(row, d) ==
    [key \in DOMAIN row |->
        IF d.cur[key] # d.loaded[key] THEN d.cur[key] ELSE row[key]]

\* the table after a flush that succeeds
Flushed(s) ==
    [i \in Ids |->
        IF \E row \in pending[s] : row.id = i
        THEN Append(db[i], CHOOSE row \in pending[s] : row.id = i)
        ELSE IF \E d \in dirty[s] : d.loaded.id = i
        THEN LET d == CHOOSE x \in dirty[s] : x.loaded.id = i
             IN  [k \in DOMAIN db[i] |-> ApplyUpdate(db[i][k], d)]
        ELSE db[i]]

-----------------------------------------------------------------------------
(* State *)

analyzeVars == <<email, analysis>>
tableVars == <<undated, db, now, userActions>>
taskVars == <<pc, force_refresh, days_back, idx, synced_count, updated_count,
              pending, dirty>>
historyVars == <<calls, outcome, prev, raced, error>>
syncVars == <<tableVars, taskVars, historyVars>>
detailVars == <<message, details>>
referralVars == <<templates, worker, reply, requests, generated>>
moreVars == <<calTask, calTable, calSession, calCounted, payload, extracted>>
restVars == <<detailVars, referralVars, moreVars>>
vars == <<analyzeVars, syncVars, restVars>>

NoCalls == [spam |-> 0, keyword |-> 0, ai |-> 0]
NoOutcome == [i \in Ids |-> "-"]
NoPrev == [ran |-> FALSE, force_refresh |-> FALSE, days_back |-> 7,
           end |-> "idle", failed |-> FALSE]

\* a text: the number of its characters without the whitespace around them,
\* the number of whitespace characters around them, and whether tracking
\* urls and tokens make up more than 30% of it
Text(len, pad, tracking) == [len |-> len, pad |-> pad, tracking |-> tracking]
EmptyText == Text(0, 0, FALSE)

\* message.get('snippet', '') of a message without a snippet
NoSnippet == [present |-> FALSE, text |-> EmptyText]

NoDetails ==
    [returned |-> FALSE, none |-> FALSE,
     body_text |-> [from |-> "none", text |-> EmptyText]]

\* no message has been fetched
DetailsIdle ==
    /\ message = [part |-> EmptyText, snippet |-> NoSnippet]
    /\ details = NoDetails

TemplateIds == 1..MaxTemplates
Workers == {1, 2}

\* a String column holding the decimal digits of n
Str(n) == [numeric |-> TRUE, value |-> n]

NoTemplate == [exists |-> FALSE, is_active |-> FALSE, usage_count |-> Str(0)]
NoWorker == [pc |-> "idle", template_id |-> 0, template |-> NoTemplate]
NoReply == [status |-> 0, template_id |-> 0, message |-> FALSE]

\* the referral_messages table is empty and no request has been received
ReferralIdle ==
    /\ templates = [id \in TemplateIds |-> NoTemplate]
    /\ worker = [w \in Workers |-> NoWorker]
    /\ reply = [w \in Workers |-> NoReply]
    /\ requests = 0
    /\ generated = [id \in TemplateIds |-> 0]

EventIds == 1..MaxEvents

\* no calendar sync has been started
CalendarIdle ==
    /\ calTask = [pc |-> "idle", calendars |-> 0, events |-> 0,
                  force_refresh |-> FALSE, c |-> 1, e |-> 1,
                  synced_count |-> 0, updated_count |-> 0]
    /\ calTable = {}
    /\ calSession = [pending |-> [id \in EventIds |-> 0], dirty |-> {}]
    /\ calCounted = [id \in EventIds |-> [new |-> 0, updated |-> 0]]

\* no payload has been looked at
BodyIdle ==
    /\ payload = [text_parts |-> << >>, html_parts |-> << >>]
    /\ extracted = [returned |-> FALSE, text_body |-> EmptyText,
                    html_body |-> EmptyText]

\* no task has been started and the table is empty
SyncIdle ==
    /\ db = [i \in Ids |-> << >>]
    /\ now = 0
    /\ userActions = 0
    /\ pc = [s \in Tasks |-> "idle"]
    /\ force_refresh = [s \in Tasks |-> FALSE]
    /\ days_back = [s \in Tasks |-> 7]
    /\ idx = [s \in Tasks |-> 1]
    /\ synced_count = [s \in Tasks |-> 0]
    /\ updated_count = [s \in Tasks |-> 0]
    /\ pending = [s \in Tasks |-> {}]
    /\ dirty = [s \in Tasks |-> {}]
    /\ calls = [s \in Tasks |-> NoCalls]
    /\ outcome = [s \in Tasks |-> NoOutcome]
    /\ prev = [s \in Tasks |-> NoPrev]
    /\ raced = {}
    /\ error = [s \in Tasks |-> "none"]

-----------------------------------------------------------------------------
(* The classification pipeline on its own: one call of analyze_email *)

InitAnalyze ==
    /\ email \in Emails \cup Scenarios \cup {Malformed}
    /\ analysis = NoAnalysis
    /\ undated = 0
    /\ SyncIdle
    /\ DetailsIdle
    /\ ReferralIdle
    /\ CalendarIdle
    /\ BodyIdle

\* the answers that matter to a call: all of them when the call reaches the
\* completion service, one (never looked at) when it does not
AskedResponses(e, responses) ==
    LET silent == [kind |-> "raise", json |-> NoObject]
    IN  IF AnalyzeEmail(e, silent).calls.ai THEN responses ELSE {silent}

\* analyze_email(email); the completion service answers resp when asked
Analyze ==
    /\ analysis.result.analysis_method = "none"
    /\ \E resp \in AskedResponses(email, AiResponses) :
           LET a == AnalyzeEmail(email, resp)
           IN  analysis' = [raised |-> a.raised, result |-> a.result,
                            calls |-> a.calls,
                            response |-> IF a.calls.ai THEN resp.kind ELSE "none",
                            json |-> IF a.calls.ai THEN resp.json ELSE NoObject]
    /\ UNCHANGED <<email, syncVars, restVars>>

NextAnalyze == Analyze

SpecAnalyze == InitAnalyze /\ [][NextAnalyze]_vars

-----------------------------------------------------------------------------
(* sync_emails_background (routes/emails.py 138-226), one task per request *)

Batch(s) == BatchLen(days_back[s])
Running(s) == pc[s] \in {"loop", "commit", "final"}

Init ==
    /\ email = Malformed
    /\ analysis = NoAnalysis
    /\ undated \in Undated
    /\ SyncIdle
    /\ DetailsIdle
    /\ ReferralIdle
    /\ CalendarIdle
    /\ BodyIdle

\* what the provider does when the batch is listed (get_emails 128-158):
\* it returns the messages, or the call raises (no service, HttpError)
ProviderAnswers == {"ok", "raise"}

\* except Exception as e (224-226): print, db.rollback(); nothing is raised
\* again and the coroutine returns
OuterExcept == [rollback |-> TRUE, reraise |-> FALSE]

\* how the task ends after the outer handler
Ended(handler) == IF handler.reraise THEN "raised" ELSE "failed"

\* the schedules explored: tasks overlap only when both sync the last 7
\* days; a sync of 30 days runs while no other task does
Alone(s, d) ==
    \A t \in Tasks \ {s} : Running(t) => (d = 7 /\ days_back[t] = 7)

\* POST /sync adds the background task; it fetches the batch (151-157)
StartSync(s) ==
    /\ ~Running(s)
    /\ now < MaxPasses
    /\ \E f \in BOOLEAN, d \in DaysBack, answer \in ProviderAnswers :
          /\ Alone(s, d)
          /\ force_refresh' = [force_refresh EXCEPT ![s] = f]
          /\ days_back' = [days_back EXCEPT ![s] = d]
          /\ pc' = [pc EXCEPT ![s] =
                       IF answer = "raise" THEN Ended(OuterExcept) ELSE "loop"]
          /\ error' = [error EXCEPT ![s] =
                          IF answer = "raise" THEN "Exception" ELSE "none"]
    /\ now' = now + 1
    /\ idx' = [idx EXCEPT ![s] = 1]
    /\ synced_count' = [synced_count EXCEPT ![s] = 0]
    /\ updated_count' = [updated_count EXCEPT ![s] = 0]
    /\ pending' = [pending EXCEPT ![s] = {}]
    /\ dirty' = [dirty EXCEPT ![s] = {}]
    /\ calls' = [calls EXCEPT ![s] = NoCalls]
    /\ outcome' = [outcome EXCEPT ![s] = NoOutcome]
    /\ prev' = [prev EXCEPT ![s] =
                   IF pc[s] = "idle" THEN NoPrev
                   ELSE [ran |-> TRUE, force_refresh |-> force_refresh[s],
                         days_back |-> days_back[s], end |-> pc[s],
                         failed |-> \E i \in Ids : outcome[s][i] = "failed"]]
    /\ UNCHANGED <<analyzeVars, restVars, undated, db, userActions, raced>>

\* the for loop moves to the next message, or to the final commit
Advance(s) ==
    /\ idx' = [idx EXCEPT ![s] = idx[s] + 1]
    /\ pc' = [pc EXCEPT ![s] = IF idx[s] + 1 > Batch(s) THEN "final" ELSE "loop"]

\* one iteration of the loop up to the counters (159-204)
ProcessRecord(s) ==
    /\ pc[s] = "loop"
    /\ LET gmail_email == GmailEmail(idx[s])
           id == gmail_email.id
           existing == Exists(id)
       IN  IF ShouldSkip(existing, force_refresh[s])
           THEN /\ Advance(s)
                /\ outcome' = [outcome EXCEPT ![s][id] = "skipped"]
                /\ UNCHANGED <<synced_count, updated_count, pending, dirty,
                               calls, raced>>
           ELSE \E resp \in AskedResponses(gmail_email.email, SyncResponses) :
                LET a == AnalyzeEmail(gmail_email.email, resp)
                    b == BuildEmailData(gmail_email, a.result, now)
                    counted == synced_count[s] + updated_count[s] + 1
                IN  /\ calls' = [calls EXCEPT ![s] =
                           [spam |-> @.spam + (IF a.calls.spam THEN 1 ELSE 0),
                            keyword |-> @.keyword + (IF a.calls.keyword THEN 1 ELSE 0),
                            ai |-> @.ai + (IF a.calls.ai THEN 1 ELSE 0)]]
                    /\ IF b.exc \in Exceptions
                       THEN \* except Exception (210-212): continue
                            /\ Advance(s)
                            /\ outcome' = [outcome EXCEPT ![s][id] = "failed"]
                            /\ UNCHANGED <<synced_count, updated_count, pending,
                                           dirty, raced>>
                       ELSE /\ IF existing
                               THEN /\ dirty' = [dirty EXCEPT ![s] = @ \cup
                                        {[loaded |-> First(id),
                                          cur |-> Overwrite(First(id), b.data)]}]
                                    /\ updated_count' =
                                          [updated_count EXCEPT ![s] = @ + 1]
                                    /\ outcome' = [outcome EXCEPT ![s][id] = "updated"]
                                    /\ UNCHANGED <<pending, synced_count, raced>>
                               ELSE /\ pending' = [pending EXCEPT ![s] =
                                                      @ \cup {NewEmail(b.data)}]
                                    /\ synced_count' =
                                          [synced_count EXCEPT ![s] = @ + 1]
                                    /\ outcome' = [outcome EXCEPT ![s][id] = "inserted"]
                                    /\ raced' =
                                          IF \E t \in Tasks \ {s} :
                                                \E row \in pending[t] : row.id = id
                                          THEN raced \cup {id} ELSE raced
                                    /\ UNCHANGED <<dirty, updated_count>>
                            /\ IF CommitDue(counted)
                               THEN /\ pc' = [pc EXCEPT ![s] = "commit"]
                                    /\ UNCHANGED idx
                               ELSE Advance(s)
    /\ UNCHANGED <<analyzeVars, restVars, tableVars, force_refresh, days_back, prev, error>>

\* a commit whose failure leaves the pending objects in the Session
Commit_NoRollback(s) ==
    /\ db' = IF FlushFails(s) THEN db ELSE Flushed(s)
    /\ pending' = [pending EXCEPT ![s] = IF FlushFails(s) THEN @ ELSE {}]
    /\ dirty' = [dirty EXCEPT ![s] = IF FlushFails(s) THEN @ ELSE {}]

\* db.commit() of the Session of s: the flush fails and rolls back, or the
\* rows are written
Commit(s) ==
    /\ db' = IF FlushFails(s) THEN db ELSE Flushed(s)
    /\ pending' = [pending EXCEPT ![s] = {}]
    /\ dirty' = [dirty EXCEPT ![s] = {}]

\* the commit after every 10th counted message (206-208); its exception is
\* caught by the handler of the iteration (210-212)
PeriodicCommit(s) ==
    /\ pc[s] = "commit"
    /\ Commit(s)
    /\ Advance(s)
    /\ UNCHANGED <<analyzeVars, restVars, undated, now, userActions, force_refresh,
                   days_back, synced_count, updated_count, historyVars>>

\* the final commit (214-215); its exception reaches the outer handler,
\* which rolls back (224-226)
FinalCommit(s) ==
    /\ pc[s] = "final"
    /\ Commit(s)
    /\ pc' = [pc EXCEPT ![s] = IF FlushFails(s) THEN Ended(OuterExcept) ELSE "done"]
    /\ error' = [error EXCEPT ![s] = IF FlushFails(s) THEN "IntegrityError" ELSE @]
    /\ UNCHANGED <<analyzeVars, restVars, undated, now, userActions, force_refresh,
                   days_back, idx, synced_count, updated_count, calls, outcome,
                   prev, raced>>

\* the host process is stopped while the task runs: the open transaction
\* is lost
Interrupt(s) ==
    /\ Running(s)
    /\ pc' = [pc EXCEPT ![s] = "interrupted"]
    /\ pending' = [pending EXCEPT ![s] = {}]
    /\ dirty' = [dirty EXCEPT ![s] = {}]
    /\ UNCHANGED <<analyzeVars, restVars, tableVars, force_refresh, days_back, idx,
                   synced_count, updated_count, historyVars>>

-----------------------------------------------------------------------------
(* Requests of the user on a stored email; each runs in its own Session    *)
(* and commits at once                                                     *)

UserRequest(id) ==
    /\ userActions < MaxUserActions
    /\ id \in 1..MaxUserId
    /\ Exists(id)
    /\ userActions' = userActions + 1

\* the request changes the row its query returned and commits
SetRow(id, row) == db' = [db EXCEPT ![id][1] = row]

\* PUT /{email_id}/status (228-259)
UpdateEmailStatus(id, status) ==
    /\ UserRequest(id)
    /\ SetRow(id, [First(id) EXCEPT !.status = status])
    /\ UNCHANGED <<analyzeVars, restVars, undated, now, taskVars, historyVars>>

\* POST /{email_id}/discard (261-289)
DiscardEmail(id) ==
    /\ UserRequest(id)
    /\ SetRow(id, [First(id) EXCEPT !.status = "DISCARDED",
                                     !.is_hiring_related = FALSE])
    /\ UNCHANGED <<analyzeVars, restVars, undated, now, taskVars, historyVars>>

\* PUT /{email_id} (291-318) with an EmailUpdate that links an application
UpdateEmail(id) ==
    /\ UserRequest(id)
    /\ SetRow(id, [First(id) EXCEPT !.application_id = "app-1"])
    /\ UNCHANGED <<analyzeVars, restVars, undated, now, taskVars, historyVars>>

Next ==
    \/ \E s \in Tasks : StartSync(s)
    \/ \E s \in Tasks : ProcessRecord(s)
    \/ \E s \in Tasks : PeriodicCommit(s)
    \/ \E s \in Tasks : FinalCommit(s)
    \/ \E s \in Tasks : Interrupt(s)
    \/ \E id \in Ids, status \in {"READ", "ARCHIVED"} : UpdateEmailStatus(id, status)
    \/ \E id \in Ids : DiscardEmail(id)
    \/ \E id \in Ids : UpdateEmail(id)

Spec == Init /\ [][Next]_vars

-----------------------------------------------------------------------------
(* _get_email_details (google_api_service.py 160-215): the body of a      *)
(* message and the fallback to its snippet                                  *)

\* len(text), text.strip(), bool(text)
Length(text) == text.len + text.pad
Strip(text) == [text EXCEPT !.pad = 0]
Truthy(text) == Length(text) > 0

\* the shortest text the tracking patterns can make up ("utm_" and a letter)
MinTracking == 5

\* what _clean_email_text returns for the text/plain part: a stripped text
Parts ==
    {Text(n, 0, t) : n \in 0..MaxBodyLen, t \in BOOLEAN} \ 
    {Text(n, 0, TRUE) : n \in 0..(MinTracking - 1)}

Snippets ==
    {NoSnippet} \cup
    {[present |-> TRUE, text |-> Text(n, k, FALSE)] :
        n \in 0..MaxSnippetLen, k \in 0..MaxPad}

Messages == [part : Parts, snippet : Snippets]

\* _is_mostly_tracking_data (330-352)
IsMostlyTrackingData(text) ==
    \/ ~Truthy(text)
    \/ Strip(text).len < 50
    \/ text.tracking

\* _extract_email_body (217-278) of a message with one text/plain part: the
\* part is kept if it has more than 20 characters, and is then the body
\* whether or not it is tracking data (best_text or text_parts[0])
ExtractEmailBody(part) ==
    IF Truthy(part) /\ Strip(part).len > 20 THEN Strip(part) ELSE EmptyText

\* the fallback of 182-187: body_text after it, and where it came from
FallbackToSnippet(msg) ==
    LET body_text == ExtractEmailBody(msg.part)
        snippet == msg.snippet.text
    IN  IF /\ \/ ~Truthy(body_text)
              \/ Strip(body_text).len < 20
              \/ IsMostlyTrackingData(body_text)
           /\ Truthy(snippet)
           /\ Strip(snippet).len > 20
        THEN [from |-> "snippet", text |-> snippet]
        ELSE [from |-> "body", text |-> body_text]

InitDetails ==
    /\ email = Malformed
    /\ analysis = NoAnalysis
    /\ undated = 0
    /\ SyncIdle
    /\ ReferralIdle
    /\ CalendarIdle
    /\ BodyIdle
    /\ message \in Messages
    /\ details = NoDetails

\* _get_email_details(message_id): the dict it returns, or None when
\* messages().get raises (213-215)
GetEmailDetails ==
    /\ ~details.returned
    /\ \E answer \in ProviderAnswers :
           details' = IF answer = "raise"
                      THEN [NoDetails EXCEPT !.returned = TRUE, !.none = TRUE]
                      ELSE [returned |-> TRUE, none |-> FALSE,
                            body_text |-> FallbackToSnippet(message)]
    /\ UNCHANGED <<message, analyzeVars, syncVars, referralVars, moreVars>>

NextDetails == GetEmailDetails

SpecDetails == InitDetails /\ [][NextDetails]_vars

-----------------------------------------------------------------------------
(* routes/referral_messages.py: the templates and generate                 *)

\* int(usage_count) + 1 as a string (175-176), "1" when int() raises (178-180)
IncrementUsage(usage_count) ==
    IF usage_count.numeric THEN Str(usage_count.value + 1) ELSE Str(1)

\* generate_id(): an id no template has
FreshId(id) ==
    /\ ~templates[id].exists
    /\ \A j \in TemplateIds : j < id => templates[j].exists

Received ==
    /\ requests < MaxRequests
    /\ requests' = requests + 1

InitReferral ==
    /\ email = Malformed
    /\ analysis = NoAnalysis
    /\ undated = 0
    /\ SyncIdle
    /\ DetailsIdle
    /\ ReferralIdle
    /\ CalendarIdle
    /\ BodyIdle

\* create_referral_message (23-44)
CreateReferralMessage(id, is_active) ==
    /\ Received
    /\ FreshId(id)
    /\ templates' = [templates EXCEPT ![id] =
           [exists |-> TRUE, is_active |-> is_active, usage_count |-> Str(0)]]
    /\ UNCHANGED <<worker, reply, generated, analyzeVars, syncVars, detailVars, moreVars>>

\* update_referral_message (77-95) with is_active in the request
UpdateReferralMessage(id, is_active) ==
    /\ Received
    /\ templates[id].exists
    /\ templates' = [templates EXCEPT ![id].is_active = is_active]
    /\ UNCHANGED <<worker, reply, generated, analyzeVars, syncVars, detailVars, moreVars>>

\* duplicate_referral_message (108-138)
DuplicateReferralMessage(original, id) ==
    /\ Received
    /\ templates[original].exists
    /\ FreshId(id)
    /\ templates' = [templates EXCEPT ![id] =
           [exists |-> TRUE, is_active |-> TRUE, usage_count |-> Str(0)]]
    /\ UNCHANGED <<worker, reply, generated, analyzeVars, syncVars, detailVars, moreVars>>

\* generate_personalized_message up to the query (140-148): the Session of
\* the worker loads the template, or the request ends with 404
GenerateLoad(w, id) ==
    /\ Received
    /\ worker[w].pc = "idle"
    /\ IF templates[id].exists
       THEN /\ worker' = [worker EXCEPT ![w] =
                   [pc |-> "loaded", template_id |-> id,
                    template |-> templates[id]]]
            /\ reply' = [reply EXCEPT ![w] = NoReply]
       ELSE /\ worker' = [worker EXCEPT ![w] = NoWorker]
            /\ reply' = [reply EXCEPT ![w] =
                   [status |-> 404, template_id |-> id, message |-> FALSE]]
    /\ UNCHANGED <<templates, generated, analyzeVars, syncVars, detailVars, moreVars>>

\* generate_personalized_message from the substitution to the response
\* (150-188): the count of the loaded object is incremented and committed;
\* the UPDATE writes the usage_count column only
GenerateCommit(w) ==
    /\ worker[w].pc = "loaded"
    /\ LET id == worker[w].template_id
           usage_count == IncrementUsage(worker[w].template.usage_count)
       IN  /\ templates' = [templates EXCEPT ![id].usage_count = usage_count]
           /\ worker' = [worker EXCEPT ![w].pc = "idle",
                                       ![w].template.usage_count = usage_count]
           /\ reply' = [reply EXCEPT ![w] =
                  [status |-> 200, template_id |-> id, message |-> TRUE]]
           /\ generated' = [generated EXCEPT ![id] = @ + 1]
    /\ UNCHANGED <<requests, analyzeVars, syncVars, detailVars, moreVars>>

NextReferral ==
    \/ \E id \in TemplateIds, a \in BOOLEAN : CreateReferralMessage(id, a)
    \/ \E id \in TemplateIds, a \in BOOLEAN : UpdateReferralMessage(id, a)
    \/ \E o, id \in TemplateIds : DuplicateReferralMessage(o, id)
    \/ \E w \in Workers, id \in TemplateIds : GenerateLoad(w, id)
    \/ \E w \in Workers : GenerateCommit(w)

SpecReferral == InitReferral /\ [][NextReferral]_vars

-----------------------------------------------------------------------------
(* sync_calendar_events_background (routes/calendar_events.py 170-261)     *)

\* get_upcoming_events(days_ahead) (google_api_service.py 636-653): it calls
\* get_calendar_events without a calendar_id, so whatever calendar the loop
\* stands at, the events are those of the primary calendar
GetUpcomingEvents(calendar) == 1..calTask.events

InitCalendar ==
    /\ email = Malformed
    /\ analysis = NoAnalysis
    /\ undated = 0
    /\ SyncIdle
    /\ DetailsIdle
    /\ ReferralIdle
    /\ BodyIdle
    /\ \E n \in 1..MaxCalendars, k \in 1..MaxEvents, f \in BOOLEAN :
           calTask = [pc |-> "list", calendars |-> n, events |-> k,
                      force_refresh |-> f, c |-> 1, e |-> 1,
                      synced_count |-> 0, updated_count |-> 0]
    /\ calTable \in SUBSET EventIds
    /\ calSession = [pending |-> [id \in EventIds |-> 0], dirty |-> {}]
    /\ calCounted = [id \in EventIds |-> [new |-> 0, updated |-> 0]]

\* the next event of the calendar, or the next calendar (for loops 192, 185)
NextEvent(t) ==
    IF t.e + 1 > Cardinality(GetUpcomingEvents(t.c))
    THEN [t EXCEPT !.pc = "list", !.c = t.c + 1, !.e = 1]
    ELSE [t EXCEPT !.pc = "event", !.e = t.e + 1]

\* the head of the calendar loop (185-190): the events are listed; when
\* the listing raises, the handler of the calendar (249-251) goes on with
\* the next calendar; after the last calendar comes the final commit
ListEvents ==
    /\ calTask.pc = "list"
    /\ IF calTask.c > calTask.calendars
       THEN calTask' = [calTask EXCEPT !.pc = "final"]
       ELSE \E answer \in ProviderAnswers :
               calTask' = IF answer = "raise"
                          THEN [calTask EXCEPT !.c = @ + 1]
                          ELSE [calTask EXCEPT !.pc = "event", !.e = 1]
    /\ UNCHANGED <<calTable, calSession, calCounted>>
    /\ UNCHANGED <<analyzeVars, syncVars, detailVars, referralVars, payload,
                   extracted>>

\* one iteration of the event loop up to the counters (192-239); ok: the
\* analysis and the enum lookups did not raise
ProcessEvent ==
    /\ calTask.pc = "event"
    /\ LET id == calTask.e
           existing_event == id \in calTable
       IN  IF ShouldSkip(existing_event, calTask.force_refresh)
           THEN /\ calTask' = NextEvent(calTask)
                /\ UNCHANGED <<calSession, calCounted>>
           ELSE \E ok \in BOOLEAN :
                IF ~ok
                THEN /\ calTask' = NextEvent(calTask)
                     /\ UNCHANGED <<calSession, calCounted>>
                ELSE LET counted == calTask.synced_count + calTask.updated_count + 1
                         t == IF existing_event
                              THEN [calTask EXCEPT !.updated_count = @ + 1]
                              ELSE [calTask EXCEPT !.synced_count = @ + 1]
                     IN  /\ calSession' =
                                IF existing_event
                                THEN [calSession EXCEPT !.dirty = @ \cup {id}]
                                ELSE [calSession EXCEPT !.pending[id] = @ + 1]
                         /\ calCounted' =
                                IF existing_event
                                THEN [calCounted EXCEPT ![id].updated = @ + 1]
                                ELSE [calCounted EXCEPT ![id].new = @ + 1]
                         /\ calTask' = IF CommitDue(counted)
                                       THEN [t EXCEPT !.pc = "commit"]
                                       ELSE NextEvent(t)
    /\ UNCHANGED calTable
    /\ UNCHANGED <<analyzeVars, syncVars, detailVars, referralVars, payload,
                   extracted>>

\* db.commit(): the rows are written, or the flush fails, because it
\* inserts two objects with one primary key, and the transaction is rolled
\* back; failed tells which
CalCommit(failed) ==
    /\ failed = \E id \in EventIds : calSession.pending[id] > 1
    /\ calTable' = IF failed THEN calTable
                   ELSE calTable \cup {id \in EventIds : calSession.pending[id] > 0}
    /\ calSession' = [pending |-> [id \in EventIds |-> 0], dirty |-> {}]

\* the commit after every 10th counted event (241-243); its exception is
\* caught by the handler of the event (245-247)
CalPeriodicCommit ==
    /\ calTask.pc = "commit"
    /\ \E failed \in BOOLEAN : CalCommit(failed)
    /\ calTask' = NextEvent(calTask)
    /\ UNCHANGED calCounted
    /\ UNCHANGED <<analyzeVars, syncVars, detailVars, referralVars, payload,
                   extracted>>

\* the final commit (253-254); its exception reaches the outer handler
\* (259-261)
CalFinalCommit ==
    /\ calTask.pc = "final"
    /\ \E failed \in BOOLEAN :
           /\ CalCommit(failed)
           /\ calTask' = [calTask EXCEPT !.pc = IF failed THEN "failed" ELSE "done"]
    /\ UNCHANGED calCounted
    /\ UNCHANGED <<analyzeVars, syncVars, detailVars, referralVars, payload,
                   extracted>>

NextCalendar ==
    \/ ListEvents
    \/ ProcessEvent
    \/ CalPeriodicCommit
    \/ CalFinalCommit

SpecCalendar == InitCalendar /\ [][NextCalendar]_vars

-----------------------------------------------------------------------------
(* _extract_email_body (google_api_service.py 217-278): the choice among   *)
(* the kept candidates of a payload                                         *)

\* the lists of at most n candidates out of S, in part order
RECURSIVE SeqsUpTo(_, _)
SeqsUpTo(S, n) ==
    IF n = 0 THEN {<< >>}
    ELSE LET shorter == SeqsUpTo(S, n - 1)
         IN  shorter \cup {Append(q, x) : q \in shorter, x \in S}

\* the loop of 263-266 (272-275) from the candidate after best on
RECURSIVE BestOf(_, _)
BestOf(parts, best) ==
    IF parts = << >> THEN best
    ELSE LET text == Head(parts)
         IN  BestOf(Tail(parts),
                    IF /\ Strip(text).len > Strip(best).len
                       /\ ~IsMostlyTrackingData(text)
                    THEN text
                    ELSE best)

\* 260-267 (269-276): "" without candidates, else best or the first one
SelectBody(parts) ==
    IF parts = << >> THEN EmptyText
    ELSE LET best == BestOf(parts, EmptyText)
         IN  IF Truthy(best) THEN best ELSE parts[1]

InitBody ==
    /\ email = Malformed
    /\ analysis = NoAnalysis
    /\ undated = 0
    /\ SyncIdle
    /\ DetailsIdle
    /\ ReferralIdle
    /\ CalendarIdle
    /\ \* what extract_from_part keeps (241-242, 246-247): cleaned, stripped
       \* texts of more than 20 characters, some of them under the 50
       \* characters of _is_mostly_tracking_data
       LET kept == {Text(n, 0, t) : n \in {30, 60, 70}, t \in BOOLEAN}
       IN  payload \in [text_parts : SeqsUpTo(kept, MaxParts),
                        html_parts : SeqsUpTo(kept, MaxParts)]
    /\ extracted = [returned |-> FALSE, text_body |-> EmptyText,
                    html_body |-> EmptyText]

\* _extract_email_body(payload): the pair it returns (278)
ExtractBodies ==
    /\ ~extracted.returned
    /\ extracted' = [returned |-> TRUE,
                     text_body |-> Strip(SelectBody(payload.text_parts)),
                     html_body |-> Strip(SelectBody(payload.html_parts))]
    /\ UNCHANGED <<payload, analyzeVars, syncVars, detailVars, referralVars,
                   calTask, calTable, calSession, calCounted>>

SpecBody == InitBody /\ [][ExtractBodies]_vars

-----------------------------------------------------------------------------
(* Properties of one call of analyze_email *)

Returned == analysis.result.analysis_method # "none"

ClassificationMethods == {"spam_filtered", "keyword", "combined"}

\* C6: analyze_email short-circuits exactly when the spam score is at least
\* 3 points (6 half points): then the AI classifier is not invoked and the
\* result is is_relevant=false, confidence=0.1, category=OTHER,
\* method=spam_filtered; below 3 points the result is never spam_filtered.
C6_SpamShortCircuit ==
    Returned =>
        /\ (email.wellFormed /\ SpamScore(email) >= 6) =>
              /\ ~analysis.calls.ai
              /\ analysis.result.is_hiring_related = FALSE
              /\ analysis.result.confidence_score = 1000
              /\ analysis.result.category = "OTHER"
              /\ analysis.result.analysis_method = "spam_filtered"
        /\ (~email.wellFormed \/ SpamScore(email) < 6) =>
              analysis.result.analysis_method # "spam_filtered"

\* an email scoring exactly 3 points whose keywords alone would have asked
\* for the AI classifier was short-circuited
C6_Witness ==
    /\ Returned
    /\ email.wellFormed
    /\ SpamScore(email) = 6
    /\ AnalyzeKeywords(email).confidence_score > 3000
    /\ analysis.result.analysis_method = "spam_filtered"
    /\ ~analysis.calls.ai

\* C7: the AI classifier is invoked if and only if the email is not flagged
\* as spam and its keyword confidence is strictly greater than 0.3; at 0.3
\* or less (and not spam) there is no AI call and the result carries the
\* keyword stage's is_relevant, confidence and category with method=keyword.
C7_AiGate ==
    (Returned /\ email.wellFormed) =>
        LET spam == SpamScore(email) >= 6
            kw == AnalyzeKeywords(email)
        IN  /\ analysis.calls.ai <=> (~spam /\ kw.confidence_score > 3000)
            /\ (~spam /\ kw.confidence_score <= 3000) =>
                  /\ analysis.result.analysis_method = "keyword"
                  /\ analysis.result.is_hiring_related = kw.is_hiring_related
                  /\ analysis.result.confidence_score = kw.confidence_score
                  /\ analysis.result.category = kw.category

\* an email that is not spam with a keyword confidence of exactly 0.3 was
\* answered by the keyword stage alone
C7_Witness ==
    /\ Returned
    /\ email.wellFormed
    /\ SpamScore(email) < 6
    /\ AnalyzeKeywords(email).confidence_score = 3000
    /\ analysis.result.analysis_method = "keyword"
    /\ ~analysis.calls.ai

\* C8: if the completion call raises or returns text that is not valid JSON,
\* analyze_email does not raise and returns a valid ClassificationResult
\* whose category is OTHER.
C8_AiFailureDegrades ==
    (Returned /\ analysis.response \in {"raise", "invalid_json", "fenced_json"}) =>
        /\ ~analysis.raised
        /\ analysis.result.category = "OTHER"
        /\ analysis.result.analysis_method \in ClassificationMethods
        /\ analysis.result.is_hiring_related \in BOOLEAN
        /\ analysis.result.confidence_score \in 0..10000

\* the completion service returned invalid JSON for an email whose keywords
\* point at an interview, and the call returned category OTHER
C8_Witness ==
    /\ Returned
    /\ analysis.response = "invalid_json"
    /\ AnalyzeKeywords(email).category = "INTERVIEW_INVITATION"
    /\ analysis.result.category = "OTHER"
    /\ analysis.calls.ai

-----------------------------------------------------------------------------
(* Properties of the sync passes *)

\* task s runs one iteration of the loop (159-212)
ProcessStep(s) ==
    /\ pc[s] = "loop"
    /\ pc'[s] \in {"loop", "commit", "final"}
    /\ (idx'[s] # idx[s] \/ pc'[s] = "commit")

\* db.commit() of task s returns without an exception (208, 215)
CommitStep(s) ==
    /\ pc[s] \in {"commit", "final"}
    /\ pc'[s] \notin {pc[s], "interrupted"}
    /\ ~FlushFails(s)

\* no other task has been started
Solo(s) == \A t \in Tasks \ {s} : pc[t] = "idle"

\* the pass of s ran to its end and reported success, after an earlier pass
\* of s over the same search that ended as `end`
Succession(s, end) ==
    /\ pc[s] = "done"
    /\ Solo(s)
    /\ prev[s].ran
    /\ prev[s].end = end
    /\ prev[s].days_back = days_back[s]

\* no message of the pass of s was given up while its fields were built
NoneFailed(s) == \A i \in Ids : outcome[s][i] # "failed"

\* the keys of email_data other than the id
DataKeys ==
    {"thread_id", "date_received", "status", "priority", "category",
     "is_hiring_related", "confidence_score", "last_sync_at"}

C2_SkipFrame ==
    [][\A s \in Tasks :
          (/\ ProcessStep(s)
           /\ ~force_refresh[s]
           /\ Exists(GmailEmail(idx[s]).id))
          => /\ calls'[s] = calls[s]
             /\ synced_count'[s] = synced_count[s]
             /\ updated_count'[s] = updated_count[s]
             /\ pending'[s] = pending[s]
             /\ dirty'[s] = dirty[s]
             /\ db' = db]_vars

\* a pass with force_refresh=false over a batch that was all persisted has
\* ended: every message skipped, nothing classified, nothing counted
C2_Witness ==
    \E s \in Tasks :
        /\ pc[s] = "done"
        /\ ~force_refresh[s]
        /\ \A i \in 1..Batch(s) : outcome[s][i] = "skipped" /\ Len(db[i]) = 1
        /\ calls[s] = NoCalls
        /\ synced_count[s] = 0
        /\ updated_count[s] = 0

FreshRow(d) == NewEmail(d.cur)

C5_Literal ==
    [][\A i \in Ids :
          (Exists(i) /\ db'[i][1].status # db[i][1].status)
              => userActions' # userActions]_vars

C10_Literal ==
    \A x \in raced :
        (\A s \in Tasks : pc[s] \in {"done", "failed"}) => Len(db[x]) >= 2

\* C10 (amended): Email.id is the primary key, so the table never holds two
\* records for one id: the commit that comes second is rejected.
C10_NoDuplicates ==
    \A i \in Ids : Len(db[i]) <= 1

\* two passes raced on an id and both have ended: the commit of one was
\* rejected and the table holds one record for the id
C10_Witness ==
    /\ raced # {}
    /\ \E s, t \in Tasks : pc[s] = "done" /\ pc[t] = "failed"
    /\ \A x \in raced : Len(db[x]) = 1

\* the outer handler of the pass of s runs (224-226)
OuterExceptStep(s) == Running(s) /\ pc'[s] \in {"failed", "raised"}

C12_Literal ==
    \A s \in Tasks : error[s] = "Exception" => pc[s] = "raised"

-----------------------------------------------------------------------------
(* Further properties of one call of analyze_email *)

\* C13 (as stated): every result analyze_email returns has analysis_method
\* spam_filtered, keyword or combined, also when an internal error is caught.
C13_Literal ==
    Returned => analysis.result.analysis_method \in ClassificationMethods

\* C13 (amended): every result analyze_email returns has analysis_method
\* spam_filtered, keyword, combined or default, and default exactly when an
\* internal error was caught.
C13_MethodValues ==
    Returned =>
        /\ analysis.result.analysis_method \in ClassificationMethods \cup {"default"}
        /\ analysis.result.analysis_method = "default" <=> ~email.wellFormed

\* the scorers raised on an email whose subject is not a string and the call
\* returned the default result
C13_Witness ==
    /\ Returned
    /\ ~email.wellFormed
    /\ ~analysis.raised
    /\ analysis.result.analysis_method = "default"
    /\ analysis.result.category = "OTHER"

\* C14: the keyword confidence, the spam confidence and the confidence of
\* the result of analyze_email lie in [0,1] (0..10000 units), for every
\* email and every answer of the completion service.
C14_ConfidenceRanges ==
    Returned =>
        /\ analysis.result.confidence_score \in 0..10000
        /\ email.wellFormed =>
              /\ AnalyzeKeywords(email).confidence_score \in 0..10000
              /\ AnalyzeSpamLikelihood(email).spam_confidence \in 0..10000

\* an email whose keyword hits sum to 1.65 was given the keyword confidence
\* 1.0, and with an AI confidence clamped to 1.0 the result has 1.0
C14_Witness ==
    /\ Returned
    /\ email = KeywordHeavy
    /\ AnalyzeKeywords(email).keyword_matches.high = 5
    /\ AnalyzeKeywords(email).confidence_score = 10000
    /\ analysis.calls.ai
    /\ analysis.result.confidence_score = 10000

\* C15: the keyword category is that of the first rule, in the order
\* interview, offer, rejection, follow-up, recruiter outreach, job
\* application, one of whose words occurs in the text, and OTHER when no
\* rule has one; a text with an interview word and an offer word gives
\* INTERVIEW_INVITATION; a keyword result carries this category.
C15_FirstMatchWins ==
    (Returned /\ email.wellFormed /\ analysis.calls.keyword) =>
        LET RuleOrder == <<"INTERVIEW_INVITATION", "OFFER", "REJECTION",
                           "FOLLOW_UP", "RECRUITER_OUTREACH", "JOB_APPLICATION">>
            text == email.subject \cup email.body
            hit(i) == \E w \in CategoryRules[i].words : Contains(text, w)
            category == AnalyzeKeywords(email).category
        IN  /\ Len(CategoryRules) = Len(RuleOrder)
            /\ IF \E i \in 1..Len(RuleOrder) : hit(i)
               THEN \E i \in 1..Len(RuleOrder) :
                       /\ hit(i)
                       /\ \A j \in 1..(i - 1) : ~hit(j)
                       /\ category = RuleOrder[i]
               ELSE category = "OTHER"
            /\ (Contains(text, "interview") /\ Contains(text, "offer"))
                  => category = "INTERVIEW_INVITATION"
            /\ analysis.result.analysis_method = "keyword"
                  => analysis.result.category = category

\* an email with words of the rejection, follow-up and job application
\* rules was answered by the keyword stage with REJECTION
C15_Witness ==
    /\ Returned
    /\ email = RejectionMail
    /\ analysis.result.analysis_method = "keyword"
    /\ analysis.result.category = "REJECTION"

\* C16 (as stated): for the email of scenario A the keyword confidence is
\* 0.45, the keyword stage's is_relevant is false, the AI stage is called
\* and the category of the result is INTERVIEW_INVITATION.
C16_Literal ==
    (Returned /\ email = ScenarioA) =>
        /\ AnalyzeKeywords(email).confidence_score = 4500
        /\ ~AnalyzeKeywords(email).is_hiring_related
        /\ analysis.calls.ai
        /\ analysis.result.category = "INTERVIEW_INVITATION"

\* C16 (amended): for the email of scenario A the keyword confidence is 0.6
\* (one high-tier hit, "interview", and two medium-tier hits, "call" and
\* "role"), the keyword stage's is_relevant is true and its category is
\* INTERVIEW_INVITATION, the AI stage is called, the result is a combined
\* one, and its category is OTHER when the AI call fails.
C16_ScenarioA ==
    (Returned /\ email = ScenarioA) =>
        /\ AnalyzeKeywords(email).keyword_matches = [high |-> 1, medium |-> 2, low |-> 0]
        /\ AnalyzeKeywords(email).confidence_score = 6000
        /\ AnalyzeKeywords(email).is_hiring_related
        /\ AnalyzeKeywords(email).category = "INTERVIEW_INVITATION"
        /\ analysis.calls.ai
        /\ analysis.result.analysis_method = "combined"
        /\ analysis.response \in {"raise", "invalid_json", "fenced_json", "non_object"}
              => analysis.result.category = "OTHER"

\* scenario A with a completion call that raised: the result is a combined
\* one with category OTHER
C16_Witness ==
    /\ Returned
    /\ email = ScenarioA
    /\ analysis.response = "raise"
    /\ analysis.result.analysis_method = "combined"
    /\ analysis.result.category = "OTHER"

-----------------------------------------------------------------------------
(* The commits of a pass *)

\* the objects of the Session of s that no commit has written yet
Uncommitted(s) == Cardinality(pending[s]) + Cardinality(dirty[s])

\* the messages the pass of s has counted as inserted or overwritten
Counted(s) == synced_count[s] + updated_count[s]

\* C20: within a pass a commit follows an insert or an overwrite exactly when
\* synced_count + updated_count is then a multiple of 10, nothing else in
\* the loop leads to one, each such commit empties the transaction, one more
\* commit ends the pass, and a transaction never holds more than 10
\* uncommitted records.
C20_CommitEveryTen ==
    [][\A s \in Tasks :
          /\ (pc[s] = "loop" /\ pc'[s] # "interrupted") =>
                LET counted == synced_count'[s] + updated_count'[s]
                IN  IF counted # Counted(s)
                    THEN /\ counted = Counted(s) + 1
                         /\ pc'[s] = "commit" <=> counted % 10 = 0
                    ELSE pc'[s] # "commit"
          /\ (pc[s] = "commit" /\ pc'[s] \notin {"commit", "interrupted"}) =>
                /\ pc'[s] \in {"loop", "final"}
                /\ pending'[s] = {}
                /\ dirty'[s] = {}
          /\ (pc[s] # "done" /\ pc'[s] = "done") =>
                /\ pc[s] = "final"
                /\ pending'[s] = {}
                /\ dirty'[s] = {}
          /\ Cardinality(pending'[s]) + Cardinality(dirty'[s]) <= 10]_vars

\* a pass that has overwritten some messages and inserted others stands at
\* the commit after its tenth, with ten records uncommitted
C20_Witness ==
    \E s \in Tasks :
        /\ pc[s] = "commit"
        /\ updated_count[s] > 0
        /\ synced_count[s] > 0
        /\ Counted(s) = 10
        /\ Uncommitted(s) = 10

-----------------------------------------------------------------------------
(* The body of a fetched message *)

\* C17 (as stated): when the cleaned text body of a message has fewer than
\* 20 characters, the returned body is the snippet if the trimmed snippet
\* has at least 20 characters, and is empty otherwise.
C17_Literal ==
    (details.returned /\ ~details.none
        /\ ExtractEmailBody(message.part).len < 20) =>
        IF message.snippet.present /\ Strip(message.snippet.text).len >= 20
        THEN details.body_text = [from |-> "snippet", text |-> message.snippet.text]
        ELSE details.body_text.text = EmptyText

-----------------------------------------------------------------------------
(* The referral templates *)

\* C18 (as stated): a generate request for a template whose is_active is
\* false is answered 400 and returns no message.
C18_Literal ==
    \A w \in Workers :
        (/\ reply[w].status # 0
         /\ worker[w].template.exists
         /\ ~worker[w].template.is_active
         /\ ~templates[worker[w].template_id].is_active) =>
            /\ reply[w].status = 400
            /\ ~reply[w].message

\* C19 (as stated): the stored usage_count of a template is its initial
\* value, 0, plus the number of generate requests for it that succeeded.
C19_Literal ==
    \A id \in TemplateIds :
        templates[id].exists => templates[id].usage_count = Str(generated[id])

-----------------------------------------------------------------------------
(* The AI stage and the combined result *)

\* what _ai_analyze_email returned in the call
AiAnalysis ==
    AiAnalyzeEmail([kind |-> analysis.response, json |-> analysis.json]).value

\* the completion service was asked and its text parsed to a JSON object
\* whose confidence_score, if it has one, is a number
Parsed ==
    /\ Returned
    /\ analysis.calls.ai
    /\ analysis.response = "object"
    /\ analysis.json.confidence_score.present => analysis.json.confidence_score.numeric

\* C21 (as stated): when the AI stage has run on a parsed answer, the result
\* is a combined one with confidence 0.3 keyword + 0.7 AI, and is_relevant
\* and category are the answer's where it has the field and the keyword
\* stage's where it lacks it.
C21_Literal ==
    Parsed =>
        LET kw == AnalyzeKeywords(email)
            json == analysis.json
            ai_confidence ==
                Max(0, Min(10000, IF json.confidence_score.present
                                  THEN json.confidence_score.value ELSE 5000))
            ai_category ==
                IF json.category \in DOMAIN category_mapping
                THEN category_mapping[json.category] ELSE "OTHER"
        IN  /\ analysis.result.analysis_method = "combined"
            /\ analysis.result.confidence_score
                  = (3 * kw.confidence_score + 7 * ai_confidence) \div 10
            /\ analysis.result.is_hiring_related
                  = IF analysis.json.is_hiring_related.present
                    THEN analysis.json.is_hiring_related.value
                    ELSE kw.is_hiring_related
            /\ analysis.result.category
                  = IF analysis.json.category # "missing"
                    THEN ai_category
                    ELSE kw.category

\* C22 (as stated): for a parsed JSON object that lacks fields the AI stage
\* returns the fixed default: is_relevant false, confidence 0.5, category
\* OTHER, priority medium, as for unparseable JSON or a failed call.
C22_Literal ==
    (/\ Parsed
     /\ \/ ~analysis.json.is_hiring_related.present
        \/ ~analysis.json.confidence_score.present
        \/ analysis.json.category = "missing"
        \/ analysis.json.priority = "missing") =>
        /\ AiAnalysis.is_hiring_related = [present |-> TRUE, value |-> FALSE]
        /\ AiAnalysis.confidence_score = 5000
        /\ AiAnalysis.category = "OTHER"
        /\ AiAnalysis.priority = "medium"
        /\ AiAnalysis = AiAnalyzeEmail([kind |-> "invalid_json", json |-> NoObject]).value

\* C23 (as stated): a completion that is a JSON object in a Markdown code
\* fence is unwrapped and parsed: the AI stage returns a parsed result, not
\* the fixed default.
C23_Literal ==
    (Returned /\ analysis.calls.ai /\ analysis.response = "fenced_json") =>
        /\ AiAnalysis.analysis_method = "ai"
        /\ AiAnalysis # DefaultAiResult

-----------------------------------------------------------------------------
(* The scorers *)

\* C24 (as stated): a subject that is all upper-case and longer than 10
\* characters adds 1 (two half points) to the spam score, whatever the other
\* signals are: the score is that of the same email with the subject in
\* lower case, plus 1.
C24_Literal ==
    (Returned /\ email.wellFormed /\ email.subjectForm = "UPPER_LONG") =>
        AnalyzeSpamLikelihood(email).spam_score
            = SpamScore([email EXCEPT !.subjectForm = "lower_long"]) + 2

\* C25 (as stated): the keyword scorer adds the domain boost exactly when
\* the domain part of the sender address is a recruiter domain; an address
\* with such a domain in its local part, or as a fragment of another
\* domain, gets none.
C25_Literal ==
    (Returned /\ email.wellFormed) =>
        (AnalyzeKeywords(email).domain_boost <=> email.sender = "recruiter")

\* C27: a result has is_relevant true only when the AI stage was called and
\* its answer, a parsed object, says is_hiring_related true or has no such
\* field while the keyword confidence exceeds 0.5; a keyword result, a
\* spam_filtered result and a result of a failed AI call or of invalid JSON
\* have is_relevant false.
C27_RelevantOnlyThroughAi ==
    Returned =>
        /\ analysis.result.is_hiring_related =>
              /\ analysis.calls.ai
              /\ analysis.response = "object"
              /\ \/ /\ analysis.json.is_hiring_related.present
                    /\ analysis.json.is_hiring_related.value
                 \/ /\ ~analysis.json.is_hiring_related.present
                    /\ AnalyzeKeywords(email).confidence_score > 5000
        /\ analysis.result.analysis_method \in {"keyword", "spam_filtered"}
              => ~analysis.result.is_hiring_related
        /\ analysis.response \in {"raise", "invalid_json"}
              => ~analysis.result.is_hiring_related

\* the AI answer has no is_hiring_related and the keyword confidence is
\* above 0.5: the combined result is relevant
C27_Witness ==
    /\ Returned
    /\ analysis.response = "object"
    /\ ~analysis.json.is_hiring_related.present
    /\ AnalyzeKeywords(email).confidence_score > 5000
    /\ analysis.result.analysis_method = "combined"
    /\ analysis.result.is_hiring_related

-----------------------------------------------------------------------------
(* The calendar sync *)

\* C28 (as stated): in one calendar sync each event id adds at most one to
\* synced_count + updated_count.
C28_Literal ==
    \A id \in EventIds : calCounted[id].new + calCounted[id].updated <= 1

-----------------------------------------------------------------------------
(* The body of a message *)

\* C26 (as stated): the body selected among the kept candidates of one kind
\* is the longest candidate that is not mostly tracking data; if every
\* candidate is tracking data it is the longest candidate, whatever its
\* position; the text/plain and the text/html candidates are treated alike
\* and independently.
C26_Literal ==
    LET Longest(parts, among, body) ==
            \E i \in among :
                /\ body = Strip(parts[i])
                /\ \A j \in among : Strip(parts[j]).len <= Strip(parts[i]).len
        Chosen(parts, body) ==
            LET clean == {i \in DOMAIN parts : ~IsMostlyTrackingData(parts[i])}
            IN  \/ parts = << >>
                \/ clean # {} /\ Longest(parts, clean, body)
                \/ clean = {} /\ Longest(parts, DOMAIN parts, body)
    IN  extracted.returned =>
            /\ Chosen(payload.text_parts, extracted.text_body)
            /\ Chosen(payload.html_parts, extracted.html_body)

-----------------------------------------------------------------------------
(* The values of the completion in the sync *)

\* C29 (as stated): whatever priority and category a completion that parses
\* as a JSON object gives, the pass inserts or overwrites the record: no
\* record is left out by the handler of the iteration because of a value
\* taken from such a completion.
C29_Literal ==
    \A s \in Tasks, id \in Ids :
        outcome[s][id] = "failed" =>
            ~\E resp \in AskedResponses(GmailEmail(id).email, SyncResponses) :
                /\ resp.kind = "object"
                /\ BuildEmailData(GmailEmail(id),
                                  AnalyzeEmail(GmailEmail(id).email, resp).result,
                                  now).exc \in Exceptions

-----------------------------------------------------------------------------
(* Two passes that add the same id *)

\* C30 (as stated): when two passes with separate Sessions have added the
\* same id before either committed it, only that id is affected: when a
\* pass has ended (every message has a Date header and the pass gave up no
\* message while building its fields), every other id it added as new has a
\* record in the table.
C30_Literal ==
    \A s \in Tasks :
        (/\ raced # {}
         /\ undated = 0
         /\ pc[s] \in {"done", "failed"}
         /\ NoneFailed(s))
            => \A id \in Ids :
                   (outcome[s][id] = "inserted" /\ id \notin raced) => Exists(id)

=============================================================================
